---- MODULE Spec2Model ----
(***************************************************************************)
(* Brand-mention analytics engine of geo_analytics:                        *)
(* backend/app/services/analytics_service.py (AnalyticsService).           *)
(*                                                                         *)
(* Strings are sequences of one-character strings.  Offsets reported by    *)
(* the matcher are 0-based, as Python's match.start().                     *)
(***************************************************************************)
EXTENDS Integers, Sequences, FiniteSets, TLC

(***************************************************************************)
(* Characters: str.lower(), and the regex classes \w and \s.               *)
(***************************************************************************)
UpperCase == <<"A","B","C","D","E","F","G","H","I","J","K","L","M",
               "N","O","P","Q","R","S","T","U","V","W","X","Y","Z">>

LowerCase == <<"a","b","c","d","e","f","g","h","i","j","k","l","m",
               "n","o","p","q","r","s","t","u","v","w","x","y","z">>

Digits == {"0","1","2","3","4","5","6","7","8","9"}

\* str.lower() on one character
LowerChar(c) ==
    IF \E i \in 1..26 : UpperCase[i] = c
    THEN LowerCase[CHOOSE i \in 1..26 : UpperCase[i] = c]
    ELSE c

\* str.lower()
Lower(s) == [i \in 1..Len(s) |-> LowerChar(s[i])]

\* regex \w
IsWordChar(c) ==
    \/ \E i \in 1..26 : UpperCase[i] = c \/ LowerCase[i] = c
    \/ c \in Digits
    \/ c = "_"

\* regex \s, str.isspace()
IsSpace(c) == c \in {" ", "\t", "\n", "\r", "\f"}

\* str.strip()
RECURSIVE LStrip(_)
LStrip(s) == IF s # <<>> /\ IsSpace(Head(s)) THEN LStrip(Tail(s)) ELSE s

RECURSIVE RStrip(_)
RStrip(s) ==
    IF s # <<>> /\ IsSpace(s[Len(s)]) THEN RStrip(SubSeq(s, 1, Len(s) - 1)) ELSE s

Strip(s) == RStrip(LStrip(s))

\* str.split(): the maximal runs of non-whitespace characters, in order
RECURSIVE SplitFrom(_, _, _, _)
SplitFrom(s, i, cur, acc) ==
    IF i > Len(s)
    THEN IF cur # <<>> THEN Append(acc, cur) ELSE acc
    ELSE IF IsSpace(s[i])
         THEN SplitFrom(s, i + 1, <<>>, IF cur # <<>> THEN Append(acc, cur) ELSE acc)
         ELSE SplitFrom(s, i + 1, Append(cur, s[i]), acc)

Split(s) == SplitFrom(s, 1, <<>>, <<>>)

\* ' '.join(words)
RECURSIVE Join(_)
Join(words) ==
    IF words = <<>> THEN <<>>
    ELSE IF Len(words) = 1 THEN words[1]
    ELSE words[1] \o <<" ">> \o Join(Tail(words))

\* re.sub(r'\s+', ' ', s): the first character of a whitespace run becomes
\* one space, the rest of the run goes
IsKept(c) == c # "dropped"

CollapseSpaces(s) ==
    SelectSeq([i \in 1..Len(s) |->
                  IF ~IsSpace(s[i]) THEN s[i]
                  ELSE IF i > 1 /\ IsSpace(s[i - 1]) THEN "dropped"
                  ELSE " "],
              IsKept)

(***************************************************************************)
(* AnalyticsService.__init__ and _clean_brand_name                         *)
(***************************************************************************)
stop_words ==
    { <<"t","h","e">>, <<"a">>, <<"a","n">>, <<"a","n","d">>,
      <<"o","r">>, <<"b","u","t">>, <<"i","n">>, <<"o","n">>,
      <<"a","t">>, <<"t","o">>, <<"f","o","r">>, <<"o","f">>,
      <<"w","i","t","h">>, <<"b","y">>, <<"f","r","o","m">>, <<"u","p">>,
      <<"a","b","o","u","t">>, <<"i","n","t","o">>, <<"t","h","r","o","u","g","h">>, <<"d","u","r","i","n","g">>,
      <<"b","e","f","o","r","e">>, <<"a","f","t","e","r">>, <<"a","b","o","v","e">>, <<"b","e","l","o","w">>,
      <<"b","e","t","w","e","e","n">>, <<"i","s">>, <<"a","r","e">>, <<"w","a","s">>,
      <<"w","e","r","e">>, <<"b","e","e","n">>, <<"b","e">>, <<"h","a","v","e">>,
      <<"h","a","s">>, <<"h","a","d">>, <<"d","o">>, <<"d","o","e","s">>,
      <<"d","i","d">>, <<"w","i","l","l">>, <<"w","o","u","l","d">>, <<"c","o","u","l","d">>,
      <<"s","h","o","u","l","d">>, <<"m","a","y">>, <<"m","i","g","h","t">>, <<"m","u","s","t">>,
      <<"c","a","n">>, <<"r","e","s","t","a","u","r","a","n","t">>, <<"c","o","m","p","a","n","y">>, <<"b","u","s","i","n","e","s","s">>,
      <<"s","e","r","v","i","c","e">>, <<"s","h","o","p">>, <<"s","t","o","r","e">>, <<"b","e","s","t">>,
      <<"g","o","o","d">>, <<"g","r","e","a","t">>, <<"n","e","a","r">>, <<"m","e">>,
      <<"m","y">>, <<"y","o","u">>, <<"y","o","u","r">>, <<"t","h","e","y">>,
      <<"t","h","e","i","r">>, <<"t","h","e","m">>, <<"w","e">>, <<"o","u","r">>,
      <<"u","s">> }

suffixes ==
    { <<"i","n","c">>, <<"l","l","c">>, <<"l","t","d">>, <<"c","o","r","p">>,
      <<"c","o","r","p","o","r","a","t","i","o","n">>, <<"c","o","m","p","a","n","y">>, <<"c","o">>, <<"r","e","s","t","a","u","r","a","n","t">>,
      <<"c","a","f","e">>, <<"b","a","r">>, <<"p","u","b">>, <<"g","r","i","l","l">>,
      <<"k","i","t","c","h","e","n">>, <<"s","e","r","v","i","c","e","s">>, <<"s","o","l","u","t","i","o","n","s">>, <<"g","r","o","u","p">>,
      <<"i","n","t","e","r","n","a","t","i","o","n","a","l">>, <<"g","l","o","b","a","l">> }

\* re.sub(r'[^\w\s\'-]', ' ', clean_name)
RemovePunctuation(s) ==
    [i \in 1..Len(s) |->
        IF IsWordChar(s[i]) \/ IsSpace(s[i]) \/ s[i] = "'" \/ s[i] = "-"
        THEN s[i] ELSE " "]

\* faulty variant: the filtering loop without its length test
KeepWord_anyLength(word) ==
    word \notin suffixes /\ word \notin stop_words

\* the test of the filtering loop
KeepWord(word) ==
    word \notin suffixes /\ word \notin stop_words /\ Len(word) > 1

FilterWords(words) == SelectSeq(words, KeepWord)

\* faulty variant: the words are filtered before the punctuation is removed
clean_brand_name_filterFirst(brand_name) ==
    RemovePunctuation(Join(FilterWords(Split(Strip(Lower(brand_name))))))

clean_brand_name(brand_name) ==
    Join(FilterWords(Split(RemovePunctuation(Strip(Lower(brand_name))))))

(***************************************************************************)
(* _count_brand_mentions                                                   *)
(***************************************************************************)
ContextWindow == 50

Max(a, b) == IF a >= b THEN a ELSE b

Min(a, b) == IF a <= b THEN a ELSE b

\* is the character at 1-based index j of text a word character
\* (indices outside the text count as non-word, as for regex \b)
WordAt(text, j) == j >= 1 /\ j <= Len(text) /\ IsWordChar(text[j])

\* regex \b at 0-based offset p: between the characters before and after p
WordBoundary(text, p) == WordAt(text, p) # WordAt(text, p + 1)

\* re.escape(clean) matched literally at offset p under re.IGNORECASE
LiteralAt(text, pat, p) ==
    /\ p + Len(pat) <= Len(text)
    /\ \A k \in 1..Len(pat) : LowerChar(text[p + k]) = LowerChar(pat[k])

\* r'\b' + re.escape(clean_brand_name) + r'\b' matches at offset p
MatchAt(text, pat, p) ==
    /\ LiteralAt(text, pat, p)
    /\ WordBoundary(text, p)
    /\ WordBoundary(text, p + Len(pat))

\* faulty variant: re.search, which reports the first match only
FindIter_firstOnly(text, pat, from, acc) ==
    LET hits == {p \in from..(Len(text) - Len(pat)) : MatchAt(text, pat, p)}
    IN  IF hits = {} THEN acc
        ELSE Append(acc, CHOOSE q \in hits : \A r \in hits : q <= r)

\* faulty variant: the scan resumes one character after a match's start, so
\* overlapping matches are reported
RECURSIVE FindIter_overlapping(_, _, _, _)
FindIter_overlapping(text, pat, from, acc) ==
    LET hits == {p \in from..(Len(text) - Len(pat)) : MatchAt(text, pat, p)}
    IN  IF hits = {} THEN acc
        ELSE LET p == CHOOSE q \in hits : \A r \in hits : q <= r
             IN  FindIter_overlapping(text, pat, p + 1, Append(acc, p))

\* re.finditer: leftmost match at or after offset from, then on from its end
\* (one character further after an empty match)
RECURSIVE FindIter(_, _, _, _)
FindIter(text, pat, from, acc) ==
    LET hits == {p \in from..(Len(text) - Len(pat)) : MatchAt(text, pat, p)}
    IN  IF hits = {} THEN acc
        ELSE LET p == CHOOSE q \in hits : \A r \in hits : q <= r
             IN  FindIter(text, pat, p + Max(Len(pat), 1), Append(acc, p))

\* faulty variant: the whitespace runs of the snippet are kept
ContextSnippet_raw(text, pat, p) ==
    LET start_pos == Max(0, p - ContextWindow)
        end_pos   == Min(Len(text), p + Len(pat) + ContextWindow)
    IN  Strip(SubSeq(text, start_pos + 1, end_pos))

\* the context snippet of the match at offset p
ContextSnippet(text, pat, p) ==
    LET start_pos == Max(0, p - ContextWindow)
        end_pos   == Min(Len(text), p + Len(pat) + ContextWindow)
    IN  CollapseSpaces(Strip(SubSeq(text, start_pos + 1, end_pos)))

NoMentions ==
    [mention_count |-> 0, mention_positions |-> <<>>, context_snippets |-> <<>>]

\* faulty variant: no early return
Unmatchable_never(clean) == FALSE

\* the early return of _count_brand_mentions
Unmatchable(clean) == clean = <<>> \/ Len(clean) < 2

count_brand_mentions(text, brand_name) ==
    LET clean == clean_brand_name(brand_name)
    IN  IF Unmatchable(clean) THEN NoMentions
        ELSE LET matches == FindIter(text, clean, 0, <<>>)
             IN  [mention_count     |-> Len(matches),
                  mention_positions |-> matches,
                  context_snippets  |->
                      [i \in 1..Len(matches) |-> ContextSnippet(text, clean, matches[i])]]

(***************************************************************************)
(* Python values used by analyze_response                                  *)
(***************************************************************************)
\* None where a str is expected
None == <<"None">>

\* truthiness of the api_key argument (None and '' are falsy)
Truthy(key) == key \notin {"None", ""}

\* dict: insertion-ordered sequence of [key, value] with unique keys
DictHas(d, k) == \E i \in 1..Len(d) : d[i].key = k

\* d[k]
ValueOf(d, key) == d[CHOOSE k \in 1..Len(d) : d[k].key = key].value

\* d[k] = v
DictSet(d, k, v) ==
    IF DictHas(d, k)
    THEN [i \in 1..Len(d) |-> IF d[i].key = k THEN [key |-> k, value |-> v] ELSE d[i]]
    ELSE Append(d, [key |-> k, value |-> v])

\* sum(d.values())
RECURSIVE SumValues(_)
SumValues(d) == IF d = <<>> THEN 0 ELSE Head(d).value + SumValues(Tail(d))

\* BrandMention(brand_name=..., mention_count=..., ...)
BrandMention(brand_name, mentions) ==
    [brand_name        |-> brand_name,
     mention_count     |-> mentions.mention_count,
     mention_positions |-> mentions.mention_positions,
     context_snippets  |-> mentions.context_snippets]

(***************************************************************************)
(* analyze_response: the counting part                                     *)
(***************************************************************************)
\* faulty variant: the list is shared by the invocations
LocalDetails_shared(done) == done

\* the lists an invocation starts from: competitor_mention_details = []
LocalDetails(done) == <<>>

\* faulty variant: only the competitors with a mention get a key
RECURSIVE CompetitorLoop_onlyMentioned(_, _, _, _, _)
CompetitorLoop_onlyMentioned(response_content, comps, i, competitor_mentions, details) ==
    IF i > Len(comps)
    THEN [competitor_mentions |-> competitor_mentions,
          competitor_mention_details |-> details]
    ELSE LET mentions == count_brand_mentions(response_content, comps[i])
         IN  CompetitorLoop_onlyMentioned(
                 response_content, comps, i + 1,
                 IF mentions.mention_count > 0
                 THEN DictSet(competitor_mentions, comps[i], mentions.mention_count)
                 ELSE competitor_mentions,
                 IF mentions.mention_count > 0
                 THEN Append(details, BrandMention(comps[i], mentions))
                 ELSE details)

\* for competitor in competitors: ...
RECURSIVE CompetitorLoop(_, _, _, _, _)
CompetitorLoop(response_content, comps, i, competitor_mentions, details) ==
    IF i > Len(comps)
    THEN [competitor_mentions |-> competitor_mentions,
          competitor_mention_details |-> details]
    ELSE LET mentions == count_brand_mentions(response_content, comps[i])
         IN  CompetitorLoop(
                 response_content, comps, i + 1,
                 DictSet(competitor_mentions, comps[i], mentions.mention_count),
                 IF mentions.mention_count > 0
                 THEN Append(details, BrandMention(comps[i], mentions))
                 ELSE details)

\* faulty variant: the owner's mentions are left out
TotalMentions_competitorsOnly(user_brand_mentions, competitor_mentions) ==
    SumValues(competitor_mentions)

\* total_mentions = user_brand_mentions["mention_count"] + sum(competitor_mentions.values())
TotalMentions(user_brand_mentions, competitor_mentions) ==
    user_brand_mentions.mention_count + SumValues(competitor_mentions)

\* the user's entry of mention_details
UserMentionDetails(business_name, user_brand_mentions) ==
    IF user_brand_mentions.mention_count > 0
    THEN <<BrandMention(business_name, user_brand_mentions)>>
    ELSE <<>>

\* faulty variant: the owner's entry is put after the competitors'
AllMentionDetails_ownerLast(user_mention_details, competitor_mention_details) ==
    competitor_mention_details \o user_mention_details

\* all_mention_details = user_mention_details + competitor_mention_details
AllMentionDetails(user_mention_details, competitor_mention_details) ==
    user_mention_details \o competitor_mention_details

\* the locals of analyze_response when it reaches the enrichment test
CountMentions(business_name, comps, llm_response, details0) ==
    LET response_content    == Lower(llm_response.response_content)
        user_brand_mentions == count_brand_mentions(response_content, business_name)
        loop == CompetitorLoop(response_content, comps, 1, <<>>, details0)
    IN  [llm_response_id     |-> llm_response.id,
         user_brand_mentions |-> user_brand_mentions.mention_count,
         competitor_mentions |-> loop.competitor_mentions,
         total_mentions      |->
             TotalMentions(user_brand_mentions, loop.competitor_mentions),
         mention_details     |->
             AllMentionDetails(
                 UserMentionDetails(business_name, user_brand_mentions),
                 loop.competitor_mention_details)]

(***************************************************************************)
(* _enhanced_analysis and the AnalyticsResult constructor                  *)
(***************************************************************************)
\* what llm_service.generate_response can do
ModelOutcomes ==
    {"raises", "content_none", "not_json",
     "json_object", "json_null", "json_scalar", "json_array"}

\* faulty variant: no inner try, a reply that is not JSON falls to the outer
\* except clause
EnhancedAnalysis_noFallback(outcome) ==
    CASE outcome \in {"raises", "content_none", "not_json"}
                                 -> [type |-> "dict", key |-> "error"]
      [] outcome = "json_object" -> [type |-> "dict", key |-> "parsed"]
      [] outcome = "json_null"   -> [type |-> "NoneType", key |-> ""]
      [] outcome = "json_scalar" -> [type |-> "scalar", key |-> ""]
      [] outcome = "json_array"  -> [type |-> "list", key |-> ""]

\* the value _enhanced_analysis returns for an outcome of the model call
EnhancedAnalysis(outcome) ==
    CASE outcome \in {"raises", "content_none"} -> [type |-> "dict", key |-> "error"]
      [] outcome = "not_json"    -> [type |-> "dict", key |-> "raw_analysis"]
      [] outcome = "json_object" -> [type |-> "dict", key |-> "parsed"]
      [] outcome = "json_null"   -> [type |-> "NoneType", key |-> ""]
      [] outcome = "json_scalar" -> [type |-> "scalar", key |-> ""]
      [] outcome = "json_array"  -> [type |-> "list", key |-> ""]

\* analysis_metadata = {} when no enrichment runs
EmptyMetadata == [type |-> "dict", key |-> ""]

\* the field analysis_metadata: Optional[Dict[str, Any]] accepts the value;
\* a list is accepted only when the validator can coerce it
MetadataValid(metadata, coercible) ==
    \/ metadata.type \in {"dict", "NoneType"}
    \/ metadata.type = "list" /\ coercible

\* AnalyticsResult(..., analysis_metadata=analysis_metadata, ...)
AnalyticsResult(locals, metadata) ==
    [kind                |-> "AnalyticsResult",
     llm_response_id     |-> locals.llm_response_id,
     user_brand_mentions |-> locals.user_brand_mentions,
     competitor_mentions |-> locals.competitor_mentions,
     total_mentions      |-> locals.total_mentions,
     mention_details     |-> locals.mention_details,
     analysis_metadata   |-> IF metadata.type = "list" THEN "dict" ELSE metadata.type,
     metadata_key        |-> metadata.key]

Raised(type, id) == [kind |-> "Exception", type |-> type, llm_response_id |-> id]

NoResult == [kind |-> "NoResult"]

NoLocals == [kind |-> "NoLocals"]

(***************************************************************************)
(* calculate_performance_metrics                                           *)
(***************************************************************************)
RECURSIVE GCD(_, _)
GCD(a, b) == IF b = 0 THEN a ELSE GCD(b, a % b)

\* the float n / d, kept as the fraction in lowest terms (two divisions give
\* the same float exactly when they give the same fraction, at these sizes)
Ratio(n, d) == [num |-> n \div GCD(n, d), den |-> d \div GCD(n, d)]

\* the float literal 0.0
ZeroFloat == [num |-> 0, den |-> 1]

RECURSIVE SumSeq(_)
SumSeq(ns) == IF ns = <<>> THEN 0 ELSE Head(ns) + SumSeq(Tail(ns))

\* faulty variant: the guard never takes the early return
NoResults_never(analytics_results) == FALSE

\* if not analytics_results
NoResults(analytics_results) == analytics_results = <<>>

\* sum(result.user_brand_mentions for result in analytics_results)
TotalUserMentions(analytics_results) ==
    SumSeq([i \in 1..Len(analytics_results) |->
               analytics_results[i].user_brand_mentions])

\* faulty variant: every mention counts, not every response with a mention
ResponsesWithUserMentions_everyMention(analytics_results) ==
    SumSeq([i \in 1..Len(analytics_results) |->
               analytics_results[i].user_brand_mentions])

\* sum(1 for result in analytics_results if result.user_brand_mentions > 0)
ResponsesWithUserMentions(analytics_results) ==
    SumSeq([i \in 1..Len(analytics_results) |->
               IF analytics_results[i].user_brand_mentions > 0 THEN 1 ELSE 0])

\* faulty variant: a later record replaces the running total
Increment_replace(total, count) == count

\* all_competitor_mentions[competitor] += count
Increment(total, count) == total + count

\* for competitor, count in result.competitor_mentions.items(): ...
\* on a Counter, for the items of a dict (its keys are distinct): a key
\* already counted has the count added in place, a missing key reads as 0
\* and is inserted after the others, in the dict's order, a zero count
\* included
AddItems(counter, items) ==
    LET IsNew(item) == ~DictHas(counter, item.key)
        inserted == SelectSeq(items, IsNew)
    IN  [k \in 1..Len(counter) |->
            IF DictHas(items, counter[k].key)
            THEN [key   |-> counter[k].key,
                  value |-> Increment(counter[k].value,
                                      ValueOf(items, counter[k].key))]
            ELSE counter[k]]
        \o [k \in 1..Len(inserted) |->
               [key   |-> inserted[k].key,
                value |-> Increment(0, inserted[k].value)]]

\* for result in analytics_results: ...
RECURSIVE AllCompetitorMentions(_, _)
AllCompetitorMentions(analytics_results, counter) ==
    IF analytics_results = <<>>
    THEN counter
    ELSE AllCompetitorMentions(
             Tail(analytics_results),
             AddItems(counter, Head(analytics_results).competitor_mentions))

TopN == 10

\* sorted(counter.items(), key=itemgetter(1), reverse=True): a stable sort,
\* so equal counts stay in insertion order
SortedByCount(counter) ==
    LET Before(j, i) ==
            \/ counter[j].value > counter[i].value
            \/ counter[j].value = counter[i].value /\ j < i
        RankOf(i) == Cardinality({j \in 1..Len(counter) : Before(j, i)}) + 1
    IN  [r \in 1..Len(counter) |->
            counter[CHOOSE i \in 1..Len(counter) : RankOf(i) = r]]

\* faulty variant: the whole sorted list, not its first n entries
MostCommon_all(counter, n) == SortedByCount(counter)

\* Counter.most_common(n) = heapq.nlargest(n, items, key=count)
MostCommon(counter, n) ==
    SubSeq(SortedByCount(counter), 1, Min(n, Len(counter)))

ZeroDivisionError == [kind |-> "ZeroDivisionError"]

\* {percent:.1f} of a/b*100: the tenths of a percent, rounded half to even
PercentTenths(a, b) ==
    LET q == (a * 1000) \div b
        r == (a * 1000) % b
    IN  IF 2 * r > b \/ (2 * r = b /\ q % 2 = 1) THEN q + 1 ELSE q

\* the dict calculate_performance_metrics returns, or the exception it raises
calculate_performance_metrics(analytics_results) ==
    IF NoResults(analytics_results)
    THEN [kind                          |-> "metrics",
          total_responses               |-> 0,
          user_mention_rate             |-> ZeroFloat,
          average_mentions_per_response |-> ZeroFloat,
          top_competitors               |-> <<>>,
          performance_summary           |-> <<"No data available">>]
    ELSE
    LET total_responses == Len(analytics_results)
        total_user_mentions == TotalUserMentions(analytics_results)
        responses_with_user_mentions == ResponsesWithUserMentions(analytics_results)
        all_competitor_mentions == AllCompetitorMentions(analytics_results, <<>>)
        most_common == MostCommon(all_competitor_mentions, TopN)
        total_mentions ==
            SumSeq([i \in 1..Len(analytics_results) |->
                       analytics_results[i].total_mentions])
    IN  IF total_responses = 0
        THEN \* count / total_responses (if any count), else the division in
             \* performance_summary
             ZeroDivisionError
        ELSE [kind                          |-> "metrics",
              total_responses               |-> total_responses,
              user_mention_rate             |->
                  Ratio(responses_with_user_mentions, total_responses),
              user_mentions_per_response    |->
                  Ratio(total_user_mentions, total_responses),
              average_mentions_per_response |->
                  Ratio(total_mentions, total_responses),
              top_competitors               |->
                  [k \in 1..Len(most_common) |->
                      [name           |-> most_common[k].key,
                       total_mentions |-> most_common[k].value,
                       mention_rate   |->
                           Ratio(most_common[k].value, total_responses)]],
              total_competitor_mentions     |-> SumValues(all_competitor_mentions),
              unique_competitors_mentioned  |-> Len(all_competitor_mentions),
              performance_summary           |->
                  <<"User mentioned in", responses_with_user_mentions,
                    total_responses,
                    PercentTenths(responses_with_user_mentions, total_responses)>>]

(***************************************************************************)
(* compare_model_performance                                               *)
(***************************************************************************)
\* LLMProvider: the text of each member
LLMProvider == [OPENAI |-> "openai", ANTHROPIC |-> "anthropic", GEMINI |-> "gemini"]

NoResponse == [kind |-> "None"]

\* next((r for r in llm_responses if r.id == result.llm_response_id), None)
FindResponse(responses, llm_response_id) ==
    IF \E i \in 1..Len(responses) : responses[i].id = llm_response_id
    THEN LET first == CHOOSE i \in 1..Len(responses) :
                          /\ responses[i].id = llm_response_id
                          /\ \A j \in 1..(i - 1) : responses[j].id # llm_response_id
         IN  responses[first]
    ELSE NoResponse

\* faulty variant: the key names the provider only
ModelKey_providerOnly(llm_response) == LLMProvider[llm_response.provider]

\* f"{llm_response.provider}_{llm_response.model}", the provider rendered by
\* its text (a runtime that renders the member's name gives other keys, one
\* per provider as well)
ModelKey(llm_response) ==
    LLMProvider[llm_response.provider] \o "_" \o llm_response.model

\* model_groups[model_key].append(result), after creating the list if needed
GroupAppend(model_groups, model_key, result) ==
    DictSet(model_groups, model_key,
            IF DictHas(model_groups, model_key)
            THEN Append(ValueOf(model_groups, model_key), result)
            ELSE <<result>>)

\* faulty variant: a result without a response is grouped under "unknown"
RECURSIVE GroupResults_keepUnresolved(_, _, _)
GroupResults_keepUnresolved(analytics_results, responses, model_groups) ==
    IF analytics_results = <<>>
    THEN model_groups
    ELSE LET result == Head(analytics_results)
             llm_response == FindResponse(responses, result.llm_response_id)
         IN  GroupResults_keepUnresolved(
                 Tail(analytics_results), responses,
                 GroupAppend(model_groups,
                             IF llm_response = NoResponse
                             THEN "unknown" ELSE ModelKey(llm_response),
                             result))

\* for result in analytics_results: ...
RECURSIVE GroupResults(_, _, _)
GroupResults(analytics_results, responses, model_groups) ==
    IF analytics_results = <<>>
    THEN model_groups
    ELSE LET result == Head(analytics_results)
             llm_response == FindResponse(responses, result.llm_response_id)
         IN  GroupResults(
                 Tail(analytics_results), responses,
                 IF llm_response = NoResponse
                 THEN model_groups
                 ELSE GroupAppend(model_groups, ModelKey(llm_response), result))

\* the dict compare_model_performance returns
compare_model_performance(analytics_results, responses) ==
    LET model_groups == GroupResults(analytics_results, responses, <<>>)
    IN  [g \in 1..Len(model_groups) |->
            [key   |-> model_groups[g].key,
             value |-> calculate_performance_metrics(model_groups[g].value)]]

(***************************************************************************)
(* Inputs                                                                  *)
(***************************************************************************)
MaxCompetitors == 2

MaxResponses == 2

JoesPizza == <<"J","o","e","'","s"," ","P","i","z","z","a">>

PizzaHut == <<"P","i","z","z","a"," ","H","u","t">>

TheCafe == <<"T","h","e"," ","C","a","f","e">>

PizzaText ==
    <<"J","o","e","'","s"," ","P","i","z","z","a"," ","i","s"," ","g",
      "r","e","a","t",","," ","b","e","t","t","e","r"," ","t","h","a",
      "n"," ","P","i","z","z","a"," ","H","u","t"," ","a","n","d"," ",
      "P","i","z","z","a"," ","H","u","t"," ","a","g","a","i","n",".">>

EmptyText == <<>>

BusinessNames == {JoesPizza, TheCafe}

CompetitorNames == {PizzaHut, TheCafe}

Contents == {PizzaText, EmptyText, None}

ApiKeys == {"None", "", "sk-test"}

\* the sequences over S of length 0..n
SeqsUpTo(S, n) == UNION {[1..k -> S] : k \in 0..n}

\* LLMResponse records with the given contents, ids in list order
Responses(contents) ==
    [i \in 1..Len(contents) |-> [id |-> i, response_content |-> contents[i]]]

(***************************************************************************)
(* State                                                                   *)
(***************************************************************************)
VARIABLES
    user,               \* User.business_name of the owner
    competitors,        \* Competitor.name of each competitor, in list order
    llm_responses,      \* the LLMResponse arguments
    api_key,            \* the api_key argument
    enhanced_analysis,  \* the enhanced_analysis argument of a direct call
    entry,              \* the method the caller invoked
    pc,                 \* where the caller's invocation stands
    tasks,              \* one analyze_response coroutine per response, with
                        \* the outcome of its model call (reply)
    log,                \* logger.error / logger.warning entries, in order
    delivered,          \* what batch_analyze_responses handed to its caller
    fn_brand,           \* argument of the pure function under test
    fn_text,            \* argument of the pure function under test
    fn_out,             \* its result
    fn_pc,              \* how often it has been applied
    fn_comps,           \* the competitor list given to analyze_response
    analytics_results,  \* the AnalyticsResult list given to the aggregator
    metrics,            \* what the aggregator or the comparator returned
    m_pc,               \* whether it has been applied
    analytics,          \* the rows of the table "analytics", in insertion order
    requests,           \* the calls of the analyze-responses endpoint
    bulk_tests,         \* the rows of the table "bulk_tests"
    bulk_run            \* the call of start_bulk_test and its background task

engineVars ==
    <<user, competitors, llm_responses, api_key, enhanced_analysis,
      entry, pc, tasks, log, delivered>>

fnVars == <<fn_brand, fn_text, fn_out, fn_pc, fn_comps>>

mVars == <<analytics_results, metrics, m_pc>>

apiVars == <<analytics, requests, bulk_tests, bulk_run>>

vars == <<engineVars, fnVars, mVars, apiVars>>

\* the arguments and locals of start_bulk_test and _execute_bulk_test, and the
\* status values written to the row so far
NoBulkRun ==
    [pc |-> "idle", prompts |-> 0, prompt |-> 0, configurations |-> 0,
     usable |-> 0, iterations |-> 0, completed_tests |-> 0, failed_tests |-> 0,
     status_writes |-> <<>>]

ApiIdle ==
    /\ analytics = <<>>
    /\ requests = <<>>
    /\ bulk_tests = <<>>
    /\ bulk_run = NoBulkRun

MetricsIdle ==
    /\ analytics_results = <<>>
    /\ metrics = [kind |-> "NoResult"]
    /\ m_pc = "idle"

FnIdle ==
    /\ fn_brand = <<>>
    /\ fn_text = <<>>
    /\ fn_out = NoResult
    /\ fn_pc = "idle"
    /\ fn_comps = <<>>

(***************************************************************************)
(* analyze_response as a coroutine                                         *)
(***************************************************************************)
NewTask(enhanced) ==
    [st |-> "pending", enhanced |-> enhanced, locals |-> NoLocals,
     result |-> NoResult, calls |-> 0, reply |-> "none", ended |-> 0]

\* the position of the next coroutine to end among those the event loop has
\* run to their end
NextEnded ==
    Cardinality({i \in 1..Len(tasks) : tasks[i].st \in {"done", "failed"}}) + 1

\* logger.error(f"Analytics processing failed for response {llm_response.id}: {e}")
AnalyticsFailedEntry(id) ==
    [level |-> "error", logger |-> "analyze_response", llm_response_id |-> id]

\* faulty variant: the except clause ends without raising, so the coroutine
\* returns None
Reraise_swallowed(exception) == [kind |-> "None"]

\* raise, at the end of the except clause: what the coroutine ends with
Reraise(exception) == exception

\* return AnalyticsResult(...), or the except clause when the constructor raises
Assemble(t, id, locals, metadata, coercible, reply) ==
    IF MetadataValid(metadata, coercible)
    THEN /\ tasks' = [tasks EXCEPT ![t] =
                         [@ EXCEPT !.st = "done", !.locals = locals, !.reply = reply,
                                   !.ended = NextEnded,
                                   !.result = AnalyticsResult(locals, metadata)]]
         /\ UNCHANGED log
    ELSE /\ tasks' = [tasks EXCEPT ![t] =
                         [@ EXCEPT !.st = "failed", !.locals = locals, !.reply = reply,
                                   !.ended = NextEnded,
                                   !.result = Reraise(Raised("ValidationError", id))]]
         /\ log' = Append(log, AnalyticsFailedEntry(id))

\* the results of the invocations that have returned so far
DoneDetails ==
    LET done == {i \in 1..Len(tasks) : tasks[i].st = "done"}
    IN  IF done = {} THEN <<>>
        ELSE tasks[CHOOSE i \in done : \A j \in done : i <= j].result.mention_details

\* analyze_response from its first line to the enrichment test: it runs without
\* suspending, and suspends only in the model call of _enhanced_analysis
AnalyzeResponse(t) ==
    /\ pc \in {"awaiting", "gathering"}
    /\ tasks[t].st = "pending"
    /\ LET llm_response == llm_responses[t]
       IN  IF llm_response.response_content = None
           THEN \* None.lower() raises AttributeError
                /\ tasks' = [tasks EXCEPT ![t] =
                      [@ EXCEPT !.st = "failed", !.ended = NextEnded,
                                !.result =
                                    Reraise(Raised("AttributeError", llm_response.id))]]
                /\ log' = Append(log, AnalyticsFailedEntry(llm_response.id))
           ELSE LET locals == CountMentions(user, competitors, llm_response,
                                            LocalDetails(DoneDetails))
                IN  IF tasks[t].enhanced /\ Truthy(api_key)
                    THEN /\ tasks' = [tasks EXCEPT ![t] =
                               [@ EXCEPT !.st = "in_model_call", !.locals = locals,
                                         !.calls = @ + 1]]
                         /\ UNCHANGED log
                    ELSE Assemble(t, llm_response.id, locals, EmptyMetadata, FALSE, "none")
    /\ UNCHANGED <<user, competitors, llm_responses, api_key, enhanced_analysis,
                   entry, pc, delivered, fnVars, mVars, apiVars>>

\* the model call of _enhanced_analysis ends, and analyze_response runs to its end
ModelCallEnds(t) ==
    /\ pc \in {"awaiting", "gathering"}
    /\ tasks[t].st = "in_model_call"
    /\ \E outcome \in ModelOutcomes, coercible \in BOOLEAN :
          /\ coercible => outcome = "json_array"
          /\ Assemble(t, llm_responses[t].id, tasks[t].locals,
                      EnhancedAnalysis(outcome), coercible, outcome)
    /\ UNCHANGED <<user, competitors, llm_responses, api_key, enhanced_analysis,
                   entry, pc, delivered, fnVars, mVars, apiVars>>

(***************************************************************************)
(* The callers                                                             *)
(***************************************************************************)
\* a direct call: await analytics_service.analyze_response(...)
CallAnalyzeResponse ==
    /\ entry = "analyze_response"
    /\ pc = "called"
    /\ tasks' = <<NewTask(enhanced_analysis)>>
    /\ pc' = "awaiting"
    /\ UNCHANGED <<user, competitors, llm_responses, api_key, enhanced_analysis,
                   entry, log, delivered, fnVars, mVars, apiVars>>

\* the awaited coroutine has ended: the caller gets the record it returned or
\* the exception it raised
AnalyzeResponseEnds ==
    /\ entry = "analyze_response"
    /\ pc = "awaiting"
    /\ tasks[1].st \in {"done", "failed"}
    /\ delivered' = tasks[1].result
    /\ pc' = "returned"
    /\ UNCHANGED <<user, competitors, llm_responses, api_key, enhanced_analysis,
                   entry, tasks, log, fnVars, mVars, apiVars>>

\* faulty variant: the batch leaves enhanced_analysis at its default
BatchEnhancedAnalysis_default == TRUE

\* enhanced_analysis=False  # Disable for batch to save tokens
BatchEnhancedAnalysis == FALSE

\* batch_analyze_responses: the loop that creates the coroutines, up to gather
BatchCreateTasks ==
    /\ entry = "batch_analyze_responses"
    /\ pc = "called"
    /\ tasks' = [i \in 1..Len(llm_responses) |-> NewTask(BatchEnhancedAnalysis)]
    /\ pc' = "gathering"
    /\ UNCHANGED <<user, competitors, llm_responses, api_key, enhanced_analysis,
                   entry, log, delivered, fnVars, mVars, apiVars>>

\* logger.error(f"Batch analysis failed for response: {result}")
BatchFailedEntry(id) ==
    [level |-> "error", logger |-> "batch_analyze_responses", llm_response_id |-> id]

\* faulty variant: the isinstance test is missing, exceptions are kept
RECURSIVE CollectResults_keepExceptions(_, _, _, _)
CollectResults_keepExceptions(results, i, successful_results, entries) ==
    IF i > Len(results)
    THEN [successful_results |-> successful_results, entries |-> entries]
    ELSE CollectResults_keepExceptions(
             results, i + 1, Append(successful_results, results[i]),
             IF results[i].kind = "Exception"
             THEN Append(entries, BatchFailedEntry(results[i].llm_response_id))
             ELSE entries)

\* the loop over gather's results, which are in the order of the tasks
RECURSIVE CollectResults(_, _, _, _)
CollectResults(results, i, successful_results, entries) ==
    IF i > Len(results)
    THEN [successful_results |-> successful_results, entries |-> entries]
    ELSE IF results[i].kind = "Exception"
         THEN CollectResults(results, i + 1, successful_results,
                             Append(entries, BatchFailedEntry(results[i].llm_response_id)))
         ELSE CollectResults(results, i + 1,
                             Append(successful_results, results[i]), entries)

\* faulty variant: the results in the order in which the coroutines ended, as
\* asyncio.as_completed yields them
GatherResults_asCompleted(children) ==
    [k \in 1..Len(children) |->
        children[CHOOSE i \in 1..Len(children) : children[i].ended = k].result]

\* results = await asyncio.gather(*tasks, return_exceptions=True): one result
\* per awaitable, in the order of the awaitables
GatherResults(children) == [i \in 1..Len(children) |-> children[i].result]

\* gather(*tasks, return_exceptions=True) completes and the batch returns
BatchReturn ==
    /\ pc = "gathering"
    /\ \A i \in 1..Len(tasks) : tasks[i].st \in {"done", "failed"}
    /\ LET out == CollectResults(GatherResults(tasks), 1, <<>>, <<>>)
       IN  /\ delivered' = [kind |-> "list", value |-> out.successful_results]
           /\ log' = log \o out.entries
    /\ pc' = "returned"
    /\ UNCHANGED <<user, competitors, llm_responses, api_key, enhanced_analysis,
                   entry, tasks, fnVars, mVars, apiVars>>

\* faulty variant: the children are not cancelled with the batch
CancelChild_orphan(task) == task

\* what cancelling the gather future does to one child
CancelChild(task) ==
    IF task.st \in {"pending", "in_model_call"}
    THEN [task EXCEPT !.st = "cancelled"]
    ELSE task

\* the caller cancels the batch while it waits in gather: gather cancels its
\* children, and CancelledError (not an Exception) leaves batch_analyze_responses
CancelBatch ==
    /\ pc = "gathering"
    /\ tasks' = [i \in 1..Len(tasks) |-> CancelChild(tasks[i])]
    /\ pc' = "cancelled"
    /\ UNCHANGED <<user, competitors, llm_responses, api_key, enhanced_analysis,
                   entry, log, delivered, fnVars, mVars, apiVars>>

NotDelivered == [kind |-> "NotDelivered"]

Init ==
    /\ user \in BusinessNames
    /\ competitors \in SeqsUpTo(CompetitorNames, MaxCompetitors)
    /\ entry \in {"analyze_response", "batch_analyze_responses"}
    /\ \E contents \in SeqsUpTo(Contents, MaxResponses) :
          /\ entry = "analyze_response" => Len(contents) = 1
          /\ llm_responses = Responses(contents)
    /\ api_key \in ApiKeys
    /\ enhanced_analysis \in BOOLEAN
    /\ entry = "batch_analyze_responses" => enhanced_analysis
    /\ pc = "called"
    /\ tasks = <<>>
    /\ log = <<>>
    /\ delivered = NotDelivered
    /\ FnIdle
    /\ MetricsIdle
    /\ ApiIdle

Next ==
    \/ CallAnalyzeResponse
    \/ AnalyzeResponseEnds
    \/ BatchCreateTasks
    \/ \E t \in 1..Len(tasks) : AnalyzeResponse(t)
    \/ \E t \in 1..Len(tasks) : ModelCallEnds(t)
    \/ BatchReturn
    \/ CancelBatch

Spec == Init /\ [][Next]_vars

\* a coroutine that has been scheduled and has not started: when AnalyzeResponse
\* is enabled for some task
TaskReady ==
    /\ pc \in {"awaiting", "gathering"}
    /\ \E t \in 1..Len(tasks) : tasks[t].st = "pending"

\* the event loop runs every coroutine that is ready: the batch up to gather,
\* a task that has not started, the batch once gather is complete. Nothing
\* time-boxes the model call, and nothing obliges a caller to cancel.
\* []<>~TaskReady is the weak fairness of \E t : AnalyzeResponse(t), a
\* step that is enabled exactly when TaskReady holds and that cannot be taken
\* infinitely often.
SpecLive ==
    /\ Init
    /\ [][Next]_vars
    /\ WF_vars(BatchCreateTasks)
    /\ []<>~TaskReady
    /\ WF_vars(BatchReturn)

(***************************************************************************)
(* The pure functions applied to drawn inputs                              *)
(***************************************************************************)
MaxNameLen == 4

MaxBrandLen == 2

MaxTextLen == 3

Cafe == <<"C","a","f","e">>

CafeteriaText == <<"C","a","f","e","t","e","r","i","a">>

BestCafeText == <<"B","e","s","t"," ","C","a","f","e"," ","i","n"," ","t","o","w","n">>

CoInc == <<"C","o","."," ","I","n","c",".">>

\* two mentions of "Pizza Hut": one with more than 50 characters on either
\* side, one with runs of whitespace around it
LongText ==
    <<"p","a","s","t","a"," ","w","i","n","e"," ","b","r","e","a","d",
      " ","o","l","i","v","e"," ","p","a","s","t","a"," ","w","i","n",
      "e"," ","b","r","e","a","d"," ","o","l","i","v","e"," ","p","a",
      "s","t","a"," ","w","i","n","e"," ","b","r","e","a","d"," ","o",
      "l","i","v","e"," ","P","i","z","z","a"," ","H","u","t"," ","p",
      "a","s","t","a"," ","w","i","n","e"," ","b","r","e","a","d"," ",
      "o","l","i","v","e"," ","p","a","s","t","a"," ","w","i","n","e",
      " ","b","r","e","a","d"," ","o","l","i","v","e"," ","p","a","s",
      "t","a"," ","w","i","n","e"," ","b","r","e","a","d"," ","o","l",
      "i","v","e"," "," ","\t"," ","P","i","z","z","a"," ","H","u","t",
      " "," ","\n"," ","e","n","d">>

HyphenBrand == <<"a","-","a">>

HyphenText == <<"a","-","a","-","a">>

\* a name with a listed suffix between two other words
PizzaCafeHut == <<"P","i","z","z","a"," ","C","a","f","e"," ","H","u","t">>

PizzaCafeHutText ==
    <<"T","r","y"," ","P","I","Z","Z","A"," ","C","A","F","E"," ","H","U","T",
      " ","t","o","d","a","y">>

NameAlphabet == {"c", "O", " ", ".", "'"}

MatchAlphabet == {"a", "B", "-", " "}

NameInputs == SeqsUpTo(NameAlphabet, MaxNameLen) \cup {Cafe, JoesPizza, TheCafe, CoInc}

BrandInputs ==
    SeqsUpTo(MatchAlphabet, MaxBrandLen)
        \cup {Cafe, JoesPizza, PizzaHut, HyphenBrand, PizzaCafeHut}

TextInputs ==
    SeqsUpTo(MatchAlphabet, MaxTextLen)
        \cup {CafeteriaText, BestCafeText, LongText, HyphenText, PizzaText,
              PizzaCafeHutText}

FnRosters(brand) == {<<>>, <<PizzaHut>>, <<brand, PizzaHut>>, <<PizzaHut, brand>>}

EngineIdle ==
    /\ user = <<>>
    /\ competitors = <<>>
    /\ llm_responses = <<>>
    /\ api_key = "None"
    /\ enhanced_analysis = FALSE
    /\ entry = "none"
    /\ pc = "idle"
    /\ tasks = <<>>
    /\ log = <<>>
    /\ delivered = NotDelivered

\* clean = self._clean_brand_name(brand_name)
FnClean ==
    /\ fn_pc = "idle"
    /\ fn_out' = [once |-> clean_brand_name(fn_brand)]
    /\ fn_pc' = "cleaned"
    /\ UNCHANGED <<fn_brand, fn_text, fn_comps, engineVars, mVars, apiVars>>

\* self._clean_brand_name(clean)
FnCleanAgain ==
    /\ fn_pc = "cleaned"
    /\ fn_out' = [once |-> fn_out.once, twice |-> clean_brand_name(fn_out.once)]
    /\ fn_pc' = "cleaned_twice"
    /\ UNCHANGED <<fn_brand, fn_text, fn_comps, engineVars, mVars, apiVars>>

InitClean ==
    /\ fn_brand \in NameInputs
    /\ fn_text = <<>>
    /\ fn_out = NoResult
    /\ fn_pc = "idle"
    /\ fn_comps = <<>>
    /\ EngineIdle
    /\ MetricsIdle
    /\ ApiIdle

NextClean == FnClean \/ FnCleanAgain

SpecClean == InitClean /\ [][NextClean]_vars

\* self._count_brand_mentions(text, brand_name)
FnCount ==
    /\ fn_pc = "idle"
    /\ fn_out' = count_brand_mentions(fn_text, fn_brand)
    /\ fn_pc' = "counted"
    /\ UNCHANGED <<fn_brand, fn_text, fn_comps, engineVars, mVars, apiVars>>

\* analyze_response(user, competitors, llm_response, enhanced_analysis=False):
\* with the enrichment off it has no suspension point and no effect but its result
FnAnalyze ==
    /\ fn_pc = "idle"
    /\ \E comps \in FnRosters(fn_brand) :
          /\ fn_comps' = comps
          /\ fn_out' = AnalyticsResult(
                           CountMentions(fn_brand, comps,
                                         [id |-> 1, response_content |-> fn_text],
                                         LocalDetails(<<>>)),
                           EmptyMetadata)
    /\ fn_pc' = "analyzed"
    /\ UNCHANGED <<fn_brand, fn_text, engineVars, mVars, apiVars>>

InitMatch ==
    /\ fn_brand \in BrandInputs
    /\ fn_text \in TextInputs
    /\ fn_out = NoResult
    /\ fn_pc = "idle"
    /\ fn_comps = <<>>
    /\ EngineIdle
    /\ MetricsIdle
    /\ ApiIdle

NextMatch == FnCount \/ FnAnalyze

SpecMatch == InitMatch /\ [][NextMatch]_vars

(***************************************************************************)
(* The aggregator and the comparator applied to drawn records              *)
(***************************************************************************)
MaxRecords == 4

\* an AnalyticsResult as analyze_response builds it: the fields the
\* aggregator and the comparator read
Record(llm_response_id, user_brand_mentions, competitor_mentions) ==
    [llm_response_id     |-> llm_response_id,
     user_brand_mentions |-> user_brand_mentions,
     competitor_mentions |-> competitor_mentions,
     total_mentions      |-> user_brand_mentions + SumValues(competitor_mentions)]

OwnerAndHut ==
    Record(1, 1, <<[key |-> PizzaHut, value |-> 2], [key |-> TheCafe, value |-> 0]>>)

CafeThenHut ==
    Record(2, 0, <<[key |-> TheCafe, value |-> 1], [key |-> PizzaHut, value |-> 1]>>)

OwnerTwice == Record(1, 2, <<>>)

\* eleven competitors "ba" .. "bk" with the counts 1, 2, 0, 1, 2, 0, ...
ElevenCompetitors ==
    Record(3, 0, [i \in 1..(TopN + 1) |->
                     [key |-> <<"b", LowerCase[i]>>, value |-> i % 3]])

\* owner mentions 1, 0, 2, 0
OwnerMentions1020 == <<OwnerAndHut, CafeThenHut, OwnerTwice, CafeThenHut>>

MetricsRecords == {OwnerAndHut, CafeThenHut, OwnerTwice, ElevenCompetitors}

WithId(record, llm_response_id) ==
    [record EXCEPT !.llm_response_id = llm_response_id]

\* records that share the response ids 1 and 2, and one whose response 3 is
\* not in any response list
CompareRecords ==
    {WithId(OwnerAndHut, 1), WithId(OwnerTwice, 1), WithId(OwnerAndHut, 2),
     WithId(CafeThenHut, 3)}

\* responses, two of them with the same id
CompareResponses ==
    {[id |-> 1, provider |-> "OPENAI", model |-> "gpt-4"],
     [id |-> 1, provider |-> "ANTHROPIC", model |-> "claude-3"],
     [id |-> 2, provider |-> "OPENAI", model |-> "gpt-4"],
     [id |-> 2, provider |-> "GEMINI", model |-> "gemini-pro"],
     [id |-> 2, provider |-> "OPENAI", model |-> "gpt-3.5-turbo"]}

\* metrics = analytics_service.calculate_performance_metrics(analytics_results)
CalculatePerformanceMetrics ==
    /\ m_pc = "idle"
    /\ metrics' = calculate_performance_metrics(analytics_results)
    /\ m_pc' = "calculated"
    /\ UNCHANGED <<analytics_results, engineVars, fnVars, apiVars>>

InitMetrics ==
    /\ analytics_results \in SeqsUpTo(MetricsRecords, MaxRecords)
    /\ metrics = [kind |-> "NoResult"]
    /\ m_pc = "idle"
    /\ EngineIdle
    /\ FnIdle
    /\ ApiIdle

NextMetrics == CalculatePerformanceMetrics

SpecMetrics == InitMetrics /\ [][NextMetrics]_vars

\* comparison = analytics_service.compare_model_performance(
\*                  analytics_results, llm_responses)
CompareModelPerformance ==
    /\ m_pc = "idle"
    /\ metrics' = compare_model_performance(analytics_results, llm_responses)
    /\ m_pc' = "compared"
    /\ UNCHANGED <<analytics_results, engineVars, fnVars, apiVars>>

InitCompare ==
    /\ analytics_results \in SeqsUpTo(CompareRecords, MaxRecords)
    /\ llm_responses \in SeqsUpTo(CompareResponses, MaxResponses)
    /\ metrics = [kind |-> "NoResult"]
    /\ m_pc = "idle"
    /\ user = <<>>
    /\ competitors = <<>>
    /\ api_key = "None"
    /\ enhanced_analysis = FALSE
    /\ entry = "none"
    /\ pc = "idle"
    /\ tasks = <<>>
    /\ log = <<>>
    /\ delivered = NotDelivered
    /\ FnIdle
    /\ ApiIdle

NextCompare == CompareModelPerformance

SpecCompare == InitCompare /\ [][NextCompare]_vars

(***************************************************************************)
(* Properties                                                              *)
(***************************************************************************)
Tasks == 1..Len(tasks)

IsBatch == entry = "batch_analyze_responses"

IsDirect == entry = "analyze_response"

\* the responses engineered to fail: their content is not a string
FailingResponses ==
    {i \in 1..Len(llm_responses) : llm_responses[i].response_content = None}

\* the record the counting alone yields for response i, enrichment off
CountingOnly(i) ==
    AnalyticsResult(CountMentions(user, competitors, llm_responses[i], <<>>),
                    EmptyMetadata)

SameCounts(r, s) ==
    /\ r.user_brand_mentions = s.user_brand_mentions
    /\ r.competitor_mentions = s.competitor_mentions
    /\ r.total_mentions = s.total_mentions
    /\ r.mention_details = s.mention_details

\* C1: every record analyze_response returns, for any owner, competitor list
\* (duplicate names included) and response text, has
\* total_mentions = user_brand_mentions + sum(competitor_mentions.values()).
C1_TotalIsSum ==
    \A t \in Tasks :
        tasks[t].st = "done" =>
            LET r == tasks[t].result
            IN  r.total_mentions
                    = r.user_brand_mentions + SumValues(r.competitor_mentions)

\* a record with owner mentions and competitor mentions, from a competitor
\* list that names the same competitor twice
C1_Witness ==
    \E t \in Tasks :
        /\ tasks[t].st = "done"
        /\ Len(competitors) = 2 /\ competitors[1] = competitors[2]
        /\ tasks[t].result.user_brand_mentions > 0
        /\ SumValues(tasks[t].result.competitor_mentions) > 0

\* C2: when a batch of K responses, F of which raise during analysis, has
\* returned, it has returned a list (it did not raise) of exactly K-F records,
\* one for each response that did not fail and none for a failing one, and
\* the log holds a batch error entry for each of the F failures; this in
\* every order in which the tasks run.
C2_BatchIsolation ==
    (IsBatch /\ pc = "returned") =>
        /\ delivered.kind = "list"
        /\ Len(delivered.value) = Len(llm_responses) - Cardinality(FailingResponses)
        /\ \A k \in 1..Len(delivered.value) :
              /\ delivered.value[k].kind = "AnalyticsResult"
              /\ delivered.value[k].llm_response_id \notin FailingResponses
        /\ \A i \in 1..Len(llm_responses) \ FailingResponses :
              /\ tasks[i].st = "done"
              /\ Cardinality({k \in 1..Len(delivered.value) :
                                 delivered.value[k].llm_response_id = i}) = 1
        /\ \A i \in FailingResponses :
              \E k \in 1..Len(log) : log[k] = BatchFailedEntry(i)

\* a returned batch of two responses, one of which failed
C2_Witness ==
    /\ IsBatch /\ pc = "returned"
    /\ Len(llm_responses) = 2
    /\ Cardinality(FailingResponses) = 1
    /\ Len(delivered.value) = 1

\* C3: with enrichment on and a key supplied, whatever the model call does
\* (raises, returns text that is not JSON, returns JSON of any shape),
\* analyze_response returns a record, and its counts and mention details are
\* those of the same call with enrichment off.
C3_EnrichmentNeverAborts ==
    \A t \in Tasks :
        (/\ IsDirect
         /\ tasks[t].enhanced /\ Truthy(api_key)
         /\ tasks[t].calls = 1
         /\ tasks[t].st # "in_model_call")
        => /\ tasks[t].st = "done"
           /\ SameCounts(tasks[t].result, CountingOnly(t))

\* C4: a direct analyze_response on a response whose content is a string
\* issues exactly one model call when enhanced_analysis is true and the
\* api_key is truthy, and none otherwise; no invocation ever issues more than
\* one; a task of batch_analyze_responses issues none, whatever the api_key.
C4_ModelCalls ==
    \A t \in Tasks :
        /\ tasks[t].calls <= 1
        /\ IsBatch => tasks[t].calls = 0
        /\ (/\ IsDirect
            /\ tasks[t].st \in {"done", "failed"}
            /\ t \notin FailingResponses)
           => tasks[t].calls = IF enhanced_analysis /\ Truthy(api_key) THEN 1 ELSE 0

\* a direct call that made its one model call and returned a record
C4_Witness ==
    \E t \in Tasks :
        /\ IsDirect
        /\ tasks[t].st = "done"
        /\ tasks[t].calls = 1

\* C5: when the caller cancels the batch while tasks are still pending, no
\* pending task is left (each is cancelled and never completes), nothing is
\* delivered to the caller, and the tasks that had completed keep their
\* results.
C5_Cancellation ==
    /\ [](pc = "cancelled" =>
            /\ delivered = NotDelivered
            /\ \A t \in Tasks : tasks[t].st \in {"done", "failed", "cancelled"})
    /\ [][pc = "cancelled" =>
            /\ pc' = "cancelled"
            /\ tasks' = tasks
            /\ delivered' = NotDelivered]_vars
    /\ [][\A t \in Tasks :
            tasks[t].st \in {"done", "failed"} =>
                /\ t \in 1..Len(tasks')
                /\ tasks'[t] = tasks[t]]_vars

\* a batch cancelled after one task completed and before another started
C5_Witness ==
    /\ pc = "cancelled"
    /\ \E t \in Tasks : tasks[t].st = "done"
    /\ \E t \in Tasks : tasks[t].st = "cancelled"

\* C6: in a batch, in every order in which the tasks run, the record of a
\* response is the record analyze_response yields for that response alone,
\* with the same roster and enrichment off; and no step changes the owner,
\* the competitor list or the responses. Stated step by step: the step in
\* which a task returns gives it that record, and no later step changes it.
C6_TaskIsolation ==
    /\ [][IsBatch =>
            \A t \in 1..Len(tasks') :
                (tasks'[t].st = "done" /\ (t > Len(tasks) \/ tasks[t].st # "done"))
                    => tasks'[t].result = CountingOnly(t)]_vars
    /\ [][\A t \in Tasks :
            tasks[t].st = "done" => t \in 1..Len(tasks') /\ tasks'[t] = tasks[t]]_vars
    /\ [][/\ user' = user
          /\ competitors' = competitors
          /\ llm_responses' = llm_responses]_vars

\* a returned batch in which two tasks produced records with mention details
C6_Witness ==
    /\ IsBatch /\ pc = "returned"
    /\ Len(tasks) = 2
    /\ \A t \in Tasks :
          /\ tasks[t].st = "done"
          /\ tasks[t].result.mention_details # <<>>

\* C7: the brand "Cafe" has no mention in the text "Cafeteria" and exactly
\* one mention in the text "Best Cafe in town".
C7_CafeWordBoundary ==
    (fn_pc = "counted" /\ fn_brand = Cafe) =>
        /\ fn_text = CafeteriaText => fn_out.mention_count = 0
        /\ fn_text = BestCafeText => fn_out.mention_count = 1

\* C8: owner "Joe's Pizza", the one competitor "Pizza Hut" and the text
\* "Joe's Pizza is great, better than Pizza Hut and Pizza Hut again." give
\* user_brand_mentions 1, competitor_mentions {"Pizza Hut": 2},
\* total_mentions 3 and two mention details, the owner's then the
\* competitor's, the latter with two positions.
C8_JoesPizzaScenario ==
    \A t \in Tasks :
        (/\ tasks[t].st = "done"
         /\ user = JoesPizza
         /\ competitors = <<PizzaHut>>
         /\ llm_responses[t].response_content = PizzaText)
        => LET r == tasks[t].result
           IN  /\ r.user_brand_mentions = 1
               /\ r.competitor_mentions = <<[key |-> PizzaHut, value |-> 2]>>
               /\ r.total_mentions = 3
               /\ Len(r.mention_details) = 2
               /\ r.mention_details[1].brand_name = JoesPizza
               /\ r.mention_details[2].brand_name = PizzaHut
               /\ Len(r.mention_details[2].mention_positions) = 2

\* the scenario has been analyzed
C8_Witness ==
    \E t \in Tasks :
        /\ tasks[t].st = "done"
        /\ user = JoesPizza
        /\ competitors = <<PizzaHut>>
        /\ llm_responses[t].response_content = PizzaText

\* C9: a brand whose normalized name has fewer than 2 characters gets
\* mention_count 0 with no positions and no snippets in every text; and an
\* empty response content gives a record with user_brand_mentions 0, every
\* competitor count 0, total_mentions 0 and no mention details.
C9_ZeroEvidence ==
    /\ (fn_pc = "counted" /\ Len(clean_brand_name(fn_brand)) < 2) =>
          /\ fn_out.mention_count = 0
          /\ fn_out.mention_positions = <<>>
          /\ fn_out.context_snippets = <<>>
    /\ (fn_pc = "analyzed" /\ fn_text = <<>>) =>
          /\ fn_out.kind = "AnalyticsResult"
          /\ fn_out.user_brand_mentions = 0
          /\ \A k \in 1..Len(fn_out.competitor_mentions) :
                fn_out.competitor_mentions[k].value = 0
          /\ fn_out.total_mentions = 0
          /\ fn_out.mention_details = <<>>

\* a brand with an empty normalized name, counted in a text that contains
\* the brand's raw name as a word
C9_Witness ==
    /\ fn_pc = "counted"
    /\ fn_brand = Cafe
    /\ fn_text = BestCafeText
    /\ Len(clean_brand_name(fn_brand)) < 2

\* C10: _clean_brand_name is idempotent: cleaning a cleaned name changes
\* nothing.
C10_CleanIdempotent ==
    fn_pc = "cleaned_twice" => fn_out.twice = fn_out.once

\* a name that the first cleaning changed, to a non-empty name
C10_Witness ==
    /\ fn_pc = "cleaned_twice"
    /\ fn_out.once # <<>>
    /\ fn_out.once # fn_brand
    /\ fn_out.once # Lower(fn_brand)

\* a run of two or more spaces in s
HasDoubleSpace(s) == \E i \in 1..(Len(s) - 1) : s[i] = " " /\ s[i + 1] = " "

\* C11 as stated: every context snippet has at most 101 characters and no
\* run of two or more spaces.
C11_SnippetAtMost101 ==
    fn_pc = "counted" =>
        \A i \in 1..Len(fn_out.context_snippets) :
            /\ Len(fn_out.context_snippets[i]) <= 101
            /\ ~HasDoubleSpace(fn_out.context_snippets[i])

\* C11, amended: every context snippet has at most 50 + (length of the
\* normalized name) + 50 characters, and no run of two or more spaces.
C11_SnippetBound ==
    fn_pc = "counted" =>
        \A i \in 1..Len(fn_out.context_snippets) :
            /\ Len(fn_out.context_snippets[i])
                  <= ContextWindow + Len(clean_brand_name(fn_brand)) + ContextWindow
            /\ ~HasDoubleSpace(fn_out.context_snippets[i])

\* a text with two mentions: the snippet of one reaches the bound, the
\* window of the other holds a run of whitespace
C11_Witness ==
    /\ fn_pc = "counted"
    /\ fn_text = LongText
    /\ Len(fn_out.context_snippets) = 2
    /\ Len(fn_out.context_snippets[1])
          = ContextWindow + Len(clean_brand_name(fn_brand)) + ContextWindow
    /\ Len(fn_out.context_snippets[2]) < Len(fn_text) - fn_out.mention_positions[2]
                                           + ContextWindow

\* C12: the evidence has as many positions and as many snippets as its
\* mention_count; the positions are offsets of the text at which the
\* normalized name stands (letter case ignored), strictly increasing, and
\* each at least the previous one plus the length of the normalized name.
C12_EvidenceShape ==
    fn_pc = "counted" =>
        LET pos  == fn_out.mention_positions
            name == clean_brand_name(fn_brand)
        IN  /\ Len(pos) = fn_out.mention_count
            /\ Len(fn_out.context_snippets) = fn_out.mention_count
            /\ \A i \in 1..Len(pos) :
                  /\ pos[i] >= 0
                  /\ pos[i] + Len(name) <= Len(fn_text)
                  /\ SubSeq(Lower(fn_text), pos[i] + 1, pos[i] + Len(name)) = name
            /\ \A i \in 1..(Len(pos) - 1) :
                  /\ pos[i] < pos[i + 1]
                  /\ pos[i] + Len(name) <= pos[i + 1]

\* a text in which the pattern matches at two overlapping places, of which
\* one is reported
C12_Witness ==
    /\ fn_pc = "counted"
    /\ fn_brand = HyphenBrand
    /\ fn_text = HyphenText
    /\ fn_out.mention_count = 1

\* C13: no reported match crosses a token boundary: the character before
\* the match and the character after it, where there is one, are not word
\* characters; this for every matchable name, those that begin or end with
\* a hyphen or an apostrophe included.
C13_NoMatchInsideToken ==
    fn_pc = "counted" =>
        LET name == clean_brand_name(fn_brand)
        IN  \A i \in 1..Len(fn_out.mention_positions) :
                LET p == fn_out.mention_positions[i]
                IN  /\ ~WordAt(fn_text, p)
                    /\ ~WordAt(fn_text, p + Len(name) + 1)

\* the keys of a dict
Keys(d) == {d[k].key : k \in 1..Len(d)}

\* C14: in every record analyze_response returns, the keys of
\* competitor_mentions are exactly the raw names of the competitors given,
\* each once, and a competitor without a match is there with the value 0.
C14_CompetitorKeys ==
    fn_pc = "analyzed" =>
        LET cm == fn_out.competitor_mentions
        IN  /\ Keys(cm) = {fn_comps[i] : i \in 1..Len(fn_comps)}
            /\ Cardinality(Keys(cm)) = Len(cm)
            /\ \A i \in 1..Len(fn_comps) :
                  count_brand_mentions(Lower(fn_text), fn_comps[i]).mention_count = 0
                  => ValueOf(cm, fn_comps[i]) = 0

\* a record for two competitors, one with mentions and one without
C14_Witness ==
    /\ fn_pc = "analyzed"
    /\ Len(fn_comps) = 2
    /\ Len(fn_out.competitor_mentions) = 2
    /\ \E k \in 1..2 : fn_out.competitor_mentions[k].value = 0
    /\ \E k \in 1..2 : fn_out.competitor_mentions[k].value > 0

\* the brand names of a list of mention details
BrandNames(details) == [i \in 1..Len(details) |-> details[i].brand_name]

\* C15: in every record analyze_response returns, mention_details holds
\* only entries with mention_count > 0; the owner's entry, if the owner is
\* mentioned, is the first; and the competitors' entries follow in the order
\* of the competitor list.
C15_DetailsOrder ==
    fn_pc = "analyzed" =>
        LET details == fn_out.mention_details
            cm      == fn_out.competitor_mentions
            Mentioned(name) == ValueOf(cm, name) > 0
            rest    == IF fn_out.user_brand_mentions > 0 THEN Tail(details) ELSE details
        IN  /\ \A i \in 1..Len(details) : details[i].mention_count > 0
            /\ fn_out.user_brand_mentions > 0 =>
                  /\ details # <<>>
                  /\ details[1].brand_name = fn_brand
                  /\ details[1].mention_count = fn_out.user_brand_mentions
            /\ BrandNames(rest) = SelectSeq(fn_comps, Mentioned)

\* a record with the owner's entry and the entries of two different
\* competitors
C15_Witness ==
    /\ fn_pc = "analyzed"
    /\ fn_text = PizzaText
    /\ fn_comps = <<PizzaHut, JoesPizza>>
    /\ Len(fn_out.mention_details) = 3
    /\ fn_out.user_brand_mentions > 0

Calculated == m_pc = "calculated"

\* C16: calculate_performance_metrics on an empty list returns
\* total_responses 0, user_mention_rate 0.0, average_mentions_per_response
\* 0.0 and an empty top_competitors list, and raises nothing.
C16_EmptyMetrics ==
    (Calculated /\ analytics_results = <<>>) =>
        /\ metrics.kind = "metrics"
        /\ metrics.total_responses = 0
        /\ metrics.user_mention_rate = ZeroFloat
        /\ metrics.average_mentions_per_response = ZeroFloat
        /\ metrics.top_competitors = <<>>

\* the aggregator has been applied to the empty list
C16_Witness == Calculated /\ analytics_results = <<>>

\* the records with at least one owner mention
WithOwnerMention ==
    {i \in 1..Len(analytics_results) : analytics_results[i].user_brand_mentions > 0}

OwnerMentionsOf(results) == [i \in 1..Len(results) |-> results[i].user_brand_mentions]

\* C17: for a non-empty list of records, total_responses is the number of
\* records and user_mention_rate is (number of records with at least one
\* owner mention) / total_responses, between 0 and 1; for owner mentions
\* 1, 0, 2, 0 the rate is 0.5.
C17_UserMentionRate ==
    (Calculated /\ analytics_results # <<>>) =>
        /\ metrics.kind = "metrics"
        /\ metrics.total_responses = Len(analytics_results)
        /\ metrics.user_mention_rate.den > 0
        /\ metrics.user_mention_rate.num * metrics.total_responses
               = Cardinality(WithOwnerMention) * metrics.user_mention_rate.den
        /\ metrics.user_mention_rate.num >= 0
        /\ metrics.user_mention_rate.num <= metrics.user_mention_rate.den
        /\ OwnerMentionsOf(analytics_results) = <<1, 0, 2, 0>> =>
               metrics.user_mention_rate = [num |-> 1, den |-> 2]

\* the scenario with owner mentions 1, 0, 2, 0 has been aggregated
C17_Witness ==
    /\ Calculated
    /\ analytics_results = OwnerMentions1020
    /\ OwnerMentionsOf(analytics_results) = <<1, 0, 2, 0>>

\* every (record, item) pair of the input, in iteration order
RECURSIVE AllItems(_)
AllItems(results) ==
    IF results = <<>> THEN <<>>
    ELSE Head(results).competitor_mentions \o AllItems(Tail(results))

\* the sum of a name's counts over all the records that contain it
TotalOf(name) ==
    LET items == AllItems(analytics_results)
    IN  SumSeq([k \in 1..Len(items) |->
                   IF items[k].key = name THEN items[k].value ELSE 0])

\* the place where a name is first seen in the summation
FirstSeen(name) ==
    LET items == AllItems(analytics_results)
    IN  CHOOSE k \in 1..Len(items) :
            /\ items[k].key = name
            /\ \A j \in 1..(k - 1) : items[j].key # name

AllNames == Keys(AllItems(analytics_results))

\* C18: the running total of each competitor name is the sum of that
\* name's counts over all records that contain it (a later record adds to
\* the total), and total_competitor_mentions is the sum of these totals.
C18_RunningTotals ==
    (Calculated /\ analytics_results # <<>>) =>
        LET all_competitor_mentions == AllCompetitorMentions(analytics_results, <<>>)
            items == AllItems(analytics_results)
        IN  /\ Keys(all_competitor_mentions) = AllNames
            /\ Len(all_competitor_mentions) = Cardinality(AllNames)
            /\ \A name \in AllNames :
                  ValueOf(all_competitor_mentions, name) = TotalOf(name)
            /\ metrics.total_competitor_mentions
                   = SumSeq([k \in 1..Len(items) |-> items[k].value])
            /\ metrics.unique_competitors_mentioned = Cardinality(AllNames)
            /\ \A k \in 1..Len(metrics.top_competitors) :
                  metrics.top_competitors[k].total_mentions
                      = TotalOf(metrics.top_competitors[k].name)

\* a name counted in two records, with a total larger than either count
C18_Witness ==
    /\ Calculated
    /\ Len(analytics_results) >= 2
    /\ analytics_results[1] = OwnerAndHut
    /\ analytics_results[2] = CafeThenHut
    /\ \E k \in 1..Len(metrics.top_competitors) :
          /\ metrics.top_competitors[k].name = PizzaHut
          /\ metrics.top_competitors[k].total_mentions = 3

\* C19: top_competitors has min(10, number of distinct names) entries, in
\* non-increasing order of running total with ties in first-seen order, no
\* entry has a smaller total than an omitted competitor, and each entry's
\* mention_rate is its total_mentions / total_responses.
C19_TopCompetitors ==
    (Calculated /\ analytics_results # <<>>) =>
        LET top == metrics.top_competitors
            listed == {top[k].name : k \in 1..Len(top)}
        IN  /\ Len(top) = Min(10, Cardinality(AllNames))
            /\ Cardinality(listed) = Len(top)
            /\ listed \subseteq AllNames
            /\ \A k \in 1..(Len(top) - 1) :
                  \/ top[k].total_mentions > top[k + 1].total_mentions
                  \/ /\ top[k].total_mentions = top[k + 1].total_mentions
                     /\ FirstSeen(top[k].name) < FirstSeen(top[k + 1].name)
            /\ \A k \in 1..Len(top) : \A name \in AllNames \ listed :
                  top[k].total_mentions >= TotalOf(name)
            /\ \A k \in 1..Len(top) :
                  /\ top[k].mention_rate.den > 0
                  /\ top[k].mention_rate.num * metrics.total_responses
                         = top[k].total_mentions * top[k].mention_rate.den

\* more than ten names, one of them left out, and a tie among those listed
C19_Witness ==
    /\ Calculated
    /\ Cardinality(AllNames) > 10
    /\ Len(metrics.top_competitors) = 10
    /\ \E k \in 1..9 :
          metrics.top_competitors[k].total_mentions
              = metrics.top_competitors[k + 1].total_mentions

Compared == m_pc = "compared"

\* the records whose llm_response_id is the id of some response
Resolved ==
    {i \in 1..Len(analytics_results) :
        \E j \in 1..Len(llm_responses) :
            llm_responses[j].id = analytics_results[i].llm_response_id}

\* C20: the total_responses of the groups compare_model_performance returns
\* add up to the number of records whose llm_response_id is the id of some
\* response, which is at most the number of records; a record without a
\* response is skipped and nothing is raised.
C20_ComparePartition ==
    Compared =>
        /\ \A g \in 1..Len(metrics) : metrics[g].value.kind = "metrics"
        /\ SumSeq([g \in 1..Len(metrics) |-> metrics[g].value.total_responses])
               = Cardinality(Resolved)
        /\ SumSeq([g \in 1..Len(metrics) |-> metrics[g].value.total_responses])
               <= Len(analytics_results)

\* two records share a response id, two responses share an id, one record
\* has no response, and two groups are returned
C20_Witness ==
    /\ Compared
    /\ \E i, j \in Resolved :
          i # j /\ analytics_results[i].llm_response_id
                       = analytics_results[j].llm_response_id
    /\ \E i, j \in 1..Len(llm_responses) :
          i # j /\ llm_responses[i].id = llm_responses[j].id
    /\ Cardinality(Resolved) < Len(analytics_results)
    /\ Len(metrics) >= 1

\* the response a record resolves to: the first one with its llm_response_id
ResponseOf(i) ==
    llm_responses[CHOOSE j \in 1..Len(llm_responses) :
        /\ llm_responses[j].id = analytics_results[i].llm_response_id
        /\ \A k \in 1..(j - 1) :
              llm_responses[k].id # analytics_results[i].llm_response_id]

PairOf(i) == <<ResponseOf(i).provider, ResponseOf(i).model>>

ResolvedPairs == {PairOf(i) : i \in Resolved}

\* the resolved records of a (provider, model) pair, in input order
RecordsOfPair(pair) ==
    LET Member(i) == i \in Resolved /\ PairOf(i) = pair
        picked == SelectSeq([i \in 1..Len(analytics_results) |-> i], Member)
    IN  [k \in 1..Len(picked) |-> analytics_results[picked[k]]]

\* C21: compare_model_performance returns one entry per distinct
\* (provider, model) pair of the resolved records and no other entry: the
\* entries have different keys and correspond one to one to the pairs, and
\* each entry is calculate_performance_metrics of exactly the resolved
\* records of its pair, of which there is at least one.
C21_GroupsArePairs ==
    Compared =>
        /\ \A g, h \in 1..Len(metrics) : metrics[g].key = metrics[h].key => g = h
        /\ \E f \in [1..Len(metrics) -> ResolvedPairs] :
              /\ \A g, h \in 1..Len(metrics) : f[g] = f[h] => g = h
              /\ \A pair \in ResolvedPairs : \E g \in 1..Len(metrics) : f[g] = pair
              /\ \A g \in 1..Len(metrics) :
                    /\ RecordsOfPair(f[g]) # <<>>
                    /\ metrics[g].value
                           = calculate_performance_metrics(RecordsOfPair(f[g]))
                    /\ metrics[g].value.total_responses = Len(RecordsOfPair(f[g]))

\* two groups of one provider with different models, one of them holding
\* two records, and a record that is in no group
C21_Witness ==
    /\ Compared
    /\ Len(metrics) = 2
    /\ \A pair \in ResolvedPairs : pair[1] = "OPENAI"
    /\ \E g \in 1..2 : metrics[g].value.total_responses >= 2
    /\ Cardinality(Resolved) < Len(analytics_results)

\* C22: when analyze_response is called directly and an exception is raised
\* before the record is assembled, the caller gets that exception and no
\* record, and the failure is logged.
C22_DirectFailurePropagates ==
    (IsDirect /\ pc = "returned" /\ tasks[1].st = "failed") =>
        /\ delivered.kind = "Exception"
        /\ delivered.llm_response_id = llm_responses[1].id
        /\ \E k \in 1..Len(log) : log[k] = AnalyticsFailedEntry(llm_responses[1].id)

\* a direct call on a response without content has ended with AttributeError
C22_Witness ==
    /\ IsDirect
    /\ pc = "returned"
    /\ llm_responses[1].response_content = None
    /\ delivered.kind = "Exception"
    /\ delivered.type = "AttributeError"

\* C23: when the model reply is not parseable as JSON _enhanced_analysis
\* returns a map with the key raw_analysis, and when the model call fails in
\* another way (it raises, or its content is not text) a map with the key
\* error; it returns normally, so the record is assembled with that map.
C23_EnrichmentFallbacks ==
    \A t \in Tasks :
        /\ tasks[t].reply = "not_json" =>
              /\ tasks[t].st = "done"
              /\ tasks[t].result.analysis_metadata = "dict"
              /\ tasks[t].result.metadata_key = "raw_analysis"
        /\ tasks[t].reply \in {"raises", "content_none"} =>
              /\ tasks[t].st = "done"
              /\ tasks[t].result.analysis_metadata = "dict"
              /\ tasks[t].result.metadata_key = "error"

\* a direct call whose model reply was not JSON has returned its record
C23_Witness ==
    /\ IsDirect
    /\ pc = "returned"
    /\ tasks[1].reply = "not_json"
    /\ delivered.kind = "AnalyticsResult"
    /\ delivered.metadata_key = "raw_analysis"

\* C24: every call of batch_analyze_responses eventually ends, with its
\* list unless its caller has cancelled it; when the list is produced every
\* per-response task has ended, and no task of the batch ever waits in a
\* model call, whatever mix of succeeding and failing responses it is given.
C24_BatchTerminates ==
    /\ IsBatch ~> (pc = "returned" \/ pc = "cancelled")
    /\ [](IsBatch /\ pc = "returned" =>
            /\ Len(tasks) = Len(llm_responses)
            /\ \A t \in Tasks : tasks[t].st \in {"done", "failed"})
    /\ [](IsBatch => \A t \in Tasks : tasks[t].st # "in_model_call")

\* a batch of one succeeding and one failing response, given a key, has
\* returned
C24_Witness ==
    /\ IsBatch
    /\ pc = "returned"
    /\ Truthy(api_key)
    /\ Len(tasks) = 2
    /\ \E t \in Tasks : tasks[t].st = "done"
    /\ \E t \in Tasks : tasks[t].st = "failed"

\* the words of the name as the filtering loop sees them
WordsOf(brand_name) == Split(RemovePunctuation(Strip(Lower(brand_name))))

\* s is tokens joined by single spaces, without whitespace at either end
SingleSpaced(s) ==
    /\ \A i \in 1..Len(s) : IsSpace(s[i]) => s[i] = " "
    /\ s # <<>> => s[1] # " " /\ s[Len(s)] # " "
    /\ ~HasDoubleSpace(s)

\* C25: the string returned by _clean_brand_name is tokens joined by single
\* spaces with no leading or trailing whitespace, and none of its tokens is a
\* listed business suffix, a listed stop word, or of length 1 or less.
C25_CleanedShape ==
    fn_pc \in {"cleaned", "cleaned_twice"} =>
        /\ SingleSpaced(fn_out.once)
        /\ \A i \in 1..Len(Split(fn_out.once)) :
              LET token == Split(fn_out.once)[i] IN
              /\ token \notin suffixes
              /\ token \notin stop_words
              /\ Len(token) > 1

\* a name that keeps a token and loses a one-letter word
C25_Witness ==
    /\ fn_pc = "cleaned"
    /\ fn_out.once # <<>>
    /\ Len(WordsOf(fn_brand)) > Len(Split(fn_out.once))
    /\ \E i \in 1..Len(WordsOf(fn_brand)) : Len(WordsOf(fn_brand)[i]) = 1

\* the positions of the responses whose analysis did not fail, in input order
RECURSIVE SurvivorsFrom(_)
SurvivorsFrom(i) ==
    IF i > Len(tasks) THEN <<>>
    ELSE IF tasks[i].st = "done" THEN <<i>> \o SurvivorsFrom(i + 1)
    ELSE SurvivorsFrom(i + 1)

\* C26: the sequence returned by batch_analyze_responses is the records of
\* the input responses with the failed ones deleted, in input order, whatever
\* the order in which the per-response tasks complete.
C26_BatchKeepsOrder ==
    (entry = "batch_analyze_responses" /\ pc = "returned") =>
        LET survivors == SurvivorsFrom(1) IN
        /\ delivered.kind = "list"
        /\ Len(delivered.value) = Len(survivors)
        /\ \A k \in 1..Len(survivors) :
              /\ delivered.value[k] = tasks[survivors[k]].result
              /\ delivered.value[k].llm_response_id = llm_responses[survivors[k]].id

\* two records returned, of which the second was ready first
C26_Witness ==
    /\ entry = "batch_analyze_responses"
    /\ pc = "returned"
    /\ Len(delivered.value) = 2
    /\ tasks[2].ended = 1
    /\ tasks[1].ended = 2
    /\ delivered.value[1].llm_response_id = llm_responses[1].id
    /\ delivered.value[1] # delivered.value[2]

(***************************************************************************)
(* The endpoint POST /{user_id}/analyze-responses                          *)
(***************************************************************************)
MaxRequests == 2

NewRequest == [pc |-> "idle", responses_to_analyze |-> <<>>, saved |-> 0]

\* the ids a call may name; the empty set stands for response_ids = None and
\* for the empty list, both falsy
ResponseIdChoices == SUBSET (1..MaxResponses)

\* supabase.table("llm_responses").select("*")...[.in_("id", response_ids)]
SelectResponses(response_ids) ==
    LET Named(llm_response) == response_ids = {} \/ llm_response.id \in response_ids
    IN  SelectSeq(llm_responses, Named)

\* analyzed_response_ids = {result["llm_response_id"] for result in existing_analysis.data}
AnalyzedResponseIds == {analytics[i].llm_response_id : i \in 1..Len(analytics)}

\* responses_to_analyze = [resp for resp in responses if resp.id not in analyzed_response_ids]
ResponsesToAnalyze(responses) ==
    LET NotAnalyzed(llm_response) == llm_response.id \notin AnalyzedResponseIds
    IN  SelectSeq(responses, NotAnalyzed)

\* analyze_responses from its first line to the await of the batch: the table
\* reads are synchronous, so nothing runs in between
AnalyzeResponsesCall(r) ==
    /\ requests[r].pc = "idle"
    /\ \E response_ids \in ResponseIdChoices :
          LET responses == SelectResponses(response_ids)
              responses_to_analyze == ResponsesToAnalyze(responses)
          IN  requests' = [requests EXCEPT ![r] =
                  IF responses = <<>>
                  THEN [@ EXCEPT !.pc = "no_responses"]
                  ELSE IF responses_to_analyze = <<>>
                  THEN [@ EXCEPT !.pc = "already_analyzed"]
                  ELSE [@ EXCEPT !.pc = "analyzing",
                                 !.responses_to_analyze = responses_to_analyze]]
    /\ UNCHANGED <<analytics, bulk_tests, bulk_run, engineVars, fnVars, mVars>>

\* what batch_analyze_responses returns for these responses: enrichment is off,
\* a response whose content is None fails and is left out
RECURSIVE BatchResults(_)
BatchResults(responses) ==
    IF responses = <<>> THEN <<>>
    ELSE IF Head(responses).response_content = None
    THEN BatchResults(Tail(responses))
    ELSE <<AnalyticsResult(CountMentions(user, competitors, Head(responses), <<>>),
                           EmptyMetadata)>>
         \o BatchResults(Tail(responses))

\* analytics_record, with analytics_id = str(uuid.uuid4()) a fresh id
AnalyticsRecord(result, analytics_id) ==
    [id                  |-> analytics_id,
     llm_response_id     |-> result.llm_response_id,
     user_brand_mentions |-> result.user_brand_mentions,
     competitor_mentions |-> result.competitor_mentions,
     total_mentions      |-> result.total_mentions]

\* supabase.table("analytics").insert(analytics_record).execute(), for the
\* first n results
InsertAll(table, results, n) ==
    table \o [k \in 1..n |-> AnalyticsRecord(results[k], Len(table) + k)]

\* the batch returns and the loop saves its results; an insert that raises
\* ends the call with the rows saved before it
AnalyzeResponsesSave(r) ==
    /\ requests[r].pc = "analyzing"
    /\ LET results == BatchResults(requests[r].responses_to_analyze)
       IN  \E n \in 0..Len(results) :
              /\ analytics' = InsertAll(analytics, results, n)
              /\ requests' = [requests EXCEPT ![r] =
                     [@ EXCEPT !.pc = IF n = Len(results)
                                      THEN "returned" ELSE "insert_failed",
                               !.saved = n]]
    /\ UNCHANGED <<bulk_tests, bulk_run, engineVars, fnVars, mVars>>

InitEndpoint ==
    /\ user \in BusinessNames
    /\ competitors \in SeqsUpTo(CompetitorNames, 1)
    /\ \E contents \in SeqsUpTo(Contents, MaxResponses) :
          llm_responses = Responses(contents)
    /\ api_key = "None"
    /\ enhanced_analysis = FALSE
    /\ entry = "none"
    /\ pc = "idle"
    /\ tasks = <<>>
    /\ log = <<>>
    /\ delivered = NotDelivered
    /\ FnIdle
    /\ MetricsIdle
    /\ analytics = <<>>
    /\ requests = [r \in 1..MaxRequests |-> NewRequest]
    /\ bulk_tests = <<>>
    /\ bulk_run = NoBulkRun

NextEndpoint ==
    \/ \E r \in 1..Len(requests) : AnalyzeResponsesCall(r)
    \/ \E r \in 1..Len(requests) : AnalyzeResponsesSave(r)

SpecEndpoint == InitEndpoint /\ [][NextEndpoint]_vars

\* C27: after any sequence of calls to the analyze-responses endpoint for one
\* user, overlapping ones included, the analytics table holds at most one
\* record per llm_response_id.
C27_OneRecordPerResponse ==
    \A i, j \in 1..Len(analytics) :
        analytics[i].llm_response_id = analytics[j].llm_response_id => i = j

\* the sum of mention_count over a list of BrandMention
RECURSIVE SumMentionCounts(_)
SumMentionCounts(details) ==
    IF details = <<>> THEN 0
    ELSE Head(details).mention_count + SumMentionCounts(Tail(details))

\* C28: in every record analyze_response returns, for any competitor list
\* (one with repeated names included), the sum of mention_count over the
\* entries of mention_details equals total_mentions.
C28_DetailsSumToTotal ==
    \A t \in 1..Len(tasks) :
        tasks[t].st = "done" =>
            SumMentionCounts(tasks[t].result.mention_details)
                = tasks[t].result.total_mentions

\* the text holds the name verbatim, in any letter case, between spaces or the
\* bounds of the text
OccursAt(text, name, p) ==
    /\ p + Len(name) - 1 <= Len(text)
    /\ SubSeq(Lower(text), p, p + Len(name) - 1) = Lower(name)
    /\ p = 1 \/ text[p - 1] = " "
    /\ p + Len(name) - 1 = Len(text) \/ text[p + Len(name)] = " "

ContainsVerbatim(text, name) ==
    /\ name # <<>>
    /\ name[1] # " " /\ name[Len(name)] # " "
    /\ \E p \in 1..Len(text) : OccursAt(text, name, p)

\* C29: for every brand whose normalized name is matchable, a response text
\* that contains the brand's raw name verbatim (any letter case) as whole
\* words, delimited by spaces or text bounds, yields mention_count >= 1.
C29_VerbatimNameCounted ==
    (/\ fn_pc = "counted"
     /\ ~Unmatchable(clean_brand_name(fn_brand))
     /\ ContainsVerbatim(fn_text, fn_brand))
    => fn_out.mention_count >= 1

(***************************************************************************)
(* The endpoint POST /{user_id}/bulk-test and its background task          *)
(***************************************************************************)
MaxPrompts == 2

MaxConfigurations == 2

MaxIterations == 2

\* iterations_per_prompt: int = 20, a field without a validator
IterationsPerPrompt == (0 - 1)..MaxIterations

\* supabase.table("bulk_tests").update({"status": ...}).eq("id", test_id)
SetStatus(rows, status) ==
    [i \in 1..Len(rows) |-> [rows[i] EXCEPT !.status = status]]

\* .update({"completed_tests": completed_tests, "failed_tests": failed_tests})
SetProgress(rows, completed_tests, failed_tests) ==
    [i \in 1..Len(rows) |->
        [rows[i] EXCEPT !.completed_tests = completed_tests,
                        !.failed_tests = failed_tests]]

\* start_bulk_test: the prompts are looked up, the row is inserted and the
\* background task is scheduled; a prompt that is not found or an insert
\* that raises ends the call without a row
StartBulkTest ==
    /\ bulk_run.pc = "idle"
    /\ \E prompts \in 0..MaxPrompts, configurations \in 0..MaxConfigurations,
          usable \in 0..MaxConfigurations, iterations \in IterationsPerPrompt,
          found \in BOOLEAN, inserted \in BOOLEAN :
          /\ usable <= configurations
          /\ IF found /\ inserted
             THEN /\ bulk_tests' =
                        <<[status          |-> "pending",
                           total_tests     |-> prompts * configurations * iterations,
                           completed_tests |-> 0,
                           failed_tests    |-> 0]>>
                  /\ bulk_run' =
                        [NoBulkRun EXCEPT !.pc = "scheduled", !.prompts = prompts,
                                          !.prompt = 1,
                                          !.configurations = configurations,
                                          !.usable = usable,
                                          !.iterations = iterations,
                                          !.status_writes = <<"pending">>]
             ELSE /\ bulk_run' = [NoBulkRun EXCEPT !.pc = "rejected"]
                  /\ UNCHANGED bulk_tests
    /\ UNCHANGED <<analytics, requests, engineVars, fnVars, mVars>>

\* the outermost except clause: the row is marked failed, unless that update
\* raises as well and the task ends with the row as it is
BulkTestFailed(run) ==
    \E updated \in BOOLEAN :
        /\ bulk_tests' = IF updated THEN SetStatus(bulk_tests, "failed") ELSE bulk_tests
        /\ bulk_run' = [run EXCEPT !.pc = "ended",
                                   !.status_writes =
                                       IF updated THEN Append(@, "failed") ELSE @]

\* _execute_bulk_test starts: update status to running
ExecuteBulkTest ==
    /\ bulk_run.pc = "scheduled"
    /\ \E updated \in BOOLEAN :
          IF updated
          THEN /\ bulk_tests' = SetStatus(bulk_tests, "running")
               /\ bulk_run' = [bulk_run EXCEPT !.pc = "loop",
                                               !.status_writes = Append(@, "running")]
          ELSE BulkTestFailed(bulk_run)
    /\ UNCHANGED <<analytics, requests, engineVars, fnVars, mVars>>

\* the loop takes the next prompt and awaits batch_generate_responses
GenerateResponses ==
    /\ bulk_run.pc = "loop"
    /\ bulk_run.prompt <= bulk_run.prompts
    /\ bulk_run' = [bulk_run EXCEPT !.pc = "generating"]
    /\ UNCHANGED <<analytics, requests, bulk_tests, engineVars, fnVars, mVars>>

\* the number of coroutines batch_generate_responses creates: range(iterations)
\* for every active configuration that has a key
Generations(usable, iterations) == usable * Max(iterations, 0)

\* batch_generate_responses returns the generations that did not fail, or
\* raises; the responses are saved one by one and the progress is written
SaveResponses ==
    /\ bulk_run.pc = "generating"
    /\ \E raised \in BOOLEAN,
          responses \in 0..Generations(bulk_run.usable, bulk_run.iterations),
          saved \in 0..Generations(bulk_run.usable, bulk_run.iterations),
          updated \in BOOLEAN :
          /\ saved <= responses
          /\ raised => responses = 0
          /\ LET completed_tests == bulk_run.completed_tests + saved
                 failed_tests ==
                     IF raised
                     THEN bulk_run.failed_tests
                              + bulk_run.configurations * bulk_run.iterations
                     ELSE bulk_run.failed_tests + (responses - saved)
                 run == [bulk_run EXCEPT !.completed_tests = completed_tests,
                                         !.failed_tests = failed_tests]
             IN  IF updated
                 THEN /\ bulk_tests' =
                            SetProgress(bulk_tests, completed_tests, failed_tests)
                      /\ bulk_run' = [run EXCEPT !.pc = "loop", !.prompt = @ + 1]
                 ELSE BulkTestFailed(run)
    /\ UNCHANGED <<analytics, requests, engineVars, fnVars, mVars>>

\* after the last prompt: mark as completed
MarkCompleted ==
    /\ bulk_run.pc = "loop"
    /\ bulk_run.prompt > bulk_run.prompts
    /\ \E updated \in BOOLEAN :
          IF updated
          THEN /\ bulk_tests' =
                     SetStatus(SetProgress(bulk_tests, bulk_run.completed_tests,
                                           bulk_run.failed_tests),
                               "completed")
               /\ bulk_run' = [bulk_run EXCEPT !.pc = "ended",
                                               !.status_writes = Append(@, "completed")]
          ELSE BulkTestFailed(bulk_run)
    /\ UNCHANGED <<analytics, requests, engineVars, fnVars, mVars>>

InitBulk ==
    /\ EngineIdle
    /\ FnIdle
    /\ MetricsIdle
    /\ ApiIdle

NextBulk ==
    \/ StartBulkTest
    \/ ExecuteBulkTest
    \/ GenerateResponses
    \/ SaveResponses
    \/ MarkCompleted

SpecBulk == InitBulk /\ [][NextBulk]_vars

\* the status histories the lifecycle allows
IsPrefix(s, t) == Len(s) <= Len(t) /\ SubSeq(t, 1, Len(s)) = s

LifecycleHistories ==
    { <<"pending", "running", "completed">>,
      <<"pending", "running", "failed">>,
      <<"pending", "failed">> }

\* C30: the status of a bulk test only moves pending -> running -> completed
\* or failed: it is completed only after every prompt has been processed, a
\* test in completed or failed never changes status again, and at every moment
\* completed_tests + failed_tests <= total_tests.
C30_BulkTestLifecycle ==
    \A i \in 1..Len(bulk_tests) :
        /\ bulk_tests[i].status = bulk_run.status_writes[Len(bulk_run.status_writes)]
        /\ \E history \in LifecycleHistories :
              IsPrefix(bulk_run.status_writes, history)
        /\ bulk_tests[i].status = "completed" => bulk_run.prompt > bulk_run.prompts
        /\ bulk_tests[i].completed_tests + bulk_tests[i].failed_tests
               <= bulk_tests[i].total_tests

\* the same for a request whose iterations_per_prompt is not negative
BulkLifecycleOfValidRequest ==
    bulk_run.iterations >= 0 => C30_BulkTestLifecycle
====
